---------------------------- MODULE Spec2Model ----------------------------
(***************************************************************************)
(* Long Beach climate dashboard: the data file, the table the pages        *)
(* register under the DuckDB name "weather", the queries of the Snapshot   *)
(* page (src/Snapshot.py) and of the Climate History By Day page           *)
(* (src/pages/3_Climate History By Day.py), the floating holidays of the   *)
(* Holiday Outlook page (src/pages/2_Holiday Outlook.py), and page runs    *)
(* of several sessions on the one DuckDB connection.                       *)
(*                                                                         *)
(* Encodings.  A date is its day number counted from 1970-01-01.  An       *)
(* optional number (a blank CSV cell, a SQL NULL) is the empty sequence,   *)
(* a present one is <<v>>.  Precipitation is in hundredths of an inch, so  *)
(* the literal 0.01 of the queries is 1.  Temperatures are whole degrees.  *)
(* AVG results are kept exact as the pair [num, den].                      *)
(***************************************************************************)
EXTENDS Integers, Sequences, FiniteSets, TLC

VARIABLES
    csv,            \* rows of updated_data.csv, in file order
    cursor,         \* date of the next observation the file will receive
    segs,           \* number of edits made to the file so far
    now_year,       \* the calendar year of the clock (datetime.now().year)
    weather,        \* the dataframe registered as "weather"
    pc,             \* "data": the file is being written; "snapshot", "climate": the page
                    \* has registered its table; else the statement that has just run
    selected,       \* the (month, day) chosen in the widgets
    day_summary,    \* result of the day_summary query (a set of rows)
    screen,         \* what the Climate History page shows for the day
    dry_streaks,    \* result of the dry_streaks query (a set of rows)
    monthly_temp_combined,  \* result rows, in order
    annual_avg_sql,         \* result rows, in order
    annual_total_prcp,      \* result rows, in order
    warmest_days,           \* result rows, in order
    coldest_days,           \* result rows, in order
    wettest_days,           \* result rows, in order (Snapshot page)
    warmest_months,         \* result rows, in order
    coldest_months,         \* result rows, in order
    wettest_months,         \* result rows, in order
    year,                   \* loop variable of get_variable_holiday_dates
    holiday_dates,          \* the three lists get_variable_holiday_dates builds
    page_runs               \* the page runs in progress in the server process

vars == <<csv, cursor, segs, now_year, weather, pc, selected, day_summary, screen,
          dry_streaks, monthly_temp_combined, annual_avg_sql, annual_total_prcp,
          warmest_days, coldest_days, wettest_days,
          warmest_months, coldest_months, wettest_months, year, holiday_dates, page_runs>>

fileVars == <<csv, cursor, segs>>
monthVars == <<warmest_months, coldest_months, wettest_months>>
holidayVars == <<year, holiday_dates>>
resultVars == <<day_summary, screen, dry_streaks, monthly_temp_combined,
                annual_avg_sql, annual_total_prcp,
                warmest_days, coldest_days, wettest_days,
                monthVars, holidayVars, page_runs>>

-----------------------------------------------------------------------------
(* Optional values *)

NULL == <<>>
Some(v) == <<v>>
IsNull(x) == x = NULL
Val(x) == x[1]

-----------------------------------------------------------------------------
(* Calendar: what .dt.year, EXTRACT(MONTH ...), EXTRACT(DAY ...) and       *)
(* parse_dates compute on the proleptic Gregorian calendar.                *)

Civil(date) ==
    LET z     == date + 719468
        era   == z \div 146097
        doe   == z - era * 146097
        yoe   == (doe - (doe \div 1460) + (doe \div 36524) - (doe \div 146096)) \div 365
        doy   == doe - (365 * yoe + (yoe \div 4) - (yoe \div 100))
        mp    == (5 * doy + 2) \div 153
        d     == doy - ((153 * mp + 2) \div 5) + 1
        m     == IF mp < 10 THEN mp + 3 ELSE mp - 9
        y     == yoe + era * 400 + (IF m <= 2 THEN 1 ELSE 0)
    IN  [year |-> y, month |-> m, day |-> d]

YearOf(date) == Civil(date).year
MonthOf(date) == Civil(date).month
DayOf(date) == Civil(date).day

ParseDate(y, m, d) ==
    LET yy  == IF m <= 2 THEN y - 1 ELSE y
        era == yy \div 400
        yoe == yy - era * 400
        mp  == IF m > 2 THEN m - 3 ELSE m + 9
        doy == ((153 * mp + 2) \div 5) + d - 1
        doe == yoe * 365 + (yoe \div 4) - (yoe \div 100) + doy
    IN  era * 146097 + doe - 719468

-----------------------------------------------------------------------------
(* Program constants *)

MinDate == ParseDate(1949, 1, 1)    \* df[df["Date"] >= "1949-01-01"]
StreakDays == 150                   \* HAVING COUNT(*) >= 150
RainCutoff == 1                     \* > 0.01 inch, in hundredths
TopLimit == 10                      \* LIMIT 10
AnnualCutoff == 2025                \* WHERE Year < 2025
FirstYear == 1949                   \* range(1949, datetime.now().year + 1)

\* holiday_dates = {"Memorial Day": [], "Labor Day": [], "Thanksgiving": []}
NoHolidayDates == [Memorial |-> <<>>, Labor |-> <<>>, Thanksgiving |-> <<>>]

\* Two browser sessions; a session that runs no page
Sessions == {"s1", "s2"}
NoRun == [page |-> "none", at |-> "idle", df |-> <<>>, read |-> <<>>, failed |-> FALSE]


-----------------------------------------------------------------------------
(* The data file and load_data *)

Row(date, p) ==
    [Date |-> date, TAVG |-> p.TAVG, TMAX |-> p.TMAX, TMIN |-> p.TMIN, PRCP |-> p.PRCP]

\* The file receives n observations with the readings p, one every `every` days.
AppendRows(p, n, every) ==
    /\ pc = "data"
    /\ csv' = csv \o [i \in 1..n |-> Row(cursor + (i - 1) * every, p)]
    /\ cursor' = cursor + n * every
    /\ segs' = segs + 1
    /\ UNCHANGED <<now_year, weather, pc, selected, resultVars>>

\* The file receives n consecutive daily observations with the readings p.
AppendDays(p, n) == AppendRows(p, n, 1)

\* The station reports nothing for n days: the file has no row for them.
SkipDays(n) ==
    /\ pc = "data"
    /\ cursor' = cursor + n
    /\ segs' = segs + 1
    /\ UNCHANGED <<csv, now_year, weather, pc, selected, resultVars>>

KeepAfter1949(r) == r.Date > MinDate

KeepFrom1949(r) == r.Date >= MinDate

load_data(file) == SelectSeq(file, KeepFrom1949)

DecadeOf(y) == (y \div 10) * 10

\* df["Year"], df["Decade"]
WithYear(df) ==
    [i \in DOMAIN df |->
        df[i] @@ [Year |-> YearOf(df[i].Date), Decade |-> DecadeOf(YearOf(df[i].Date))]]

\* df["Month"], df["Day"]
WithMonthDay(df) ==
    [i \in DOMAIN df |->
        df[i] @@ [Month |-> MonthOf(df[i].Date), Day |-> DayOf(df[i].Date)]]

\* Snapshot.py up to duckdb.register("weather", df)
LoadSnapshot ==
    /\ pc = "data"
    /\ weather' = WithYear(load_data(csv))
    /\ pc' = "snapshot"
    /\ UNCHANGED <<fileVars, now_year, selected, resultVars>>

\* 3_Climate History By Day.py up to the second duckdb.register("weather", df)
LoadClimate ==
    /\ pc = "data"
    /\ weather' = WithMonthDay(WithYear(load_data(csv)))
    /\ pc' = "climate"
    /\ UNCHANGED <<fileVars, now_year, selected, resultVars>>

-----------------------------------------------------------------------------
(* dry_streaks *)

SetMin(S) == CHOOSE x \in S : \A y \in S : x <= y
SetMax(S) == CHOOSE x \in S : \A y \in S : y <= x

\* CASE WHEN "PRCP (Inches)" IS NULL OR "PRCP (Inches)" = 0 THEN 1 ELSE 0 END
is_dry(prcp) == IF IsNull(prcp) \/ Val(prcp) = 0 THEN 1 ELSE 0

HavingCountAbove(n) == n > StreakDays

\* HAVING COUNT(*) >= 150
HavingCount(n) == n >= StreakDays

RainOnNextDayAtLeast(s, w) ==
    /\ w.Date = s.EndDate + 1
    /\ ~IsNull(w.PRCP)
    /\ Val(w.PRCP) >= RainCutoff

\* JOIN weather w ON w.Date = s.EndDate + INTERVAL 1 DAY WHERE w.PRCP > 0.01
RainOnNextDay(s, w) ==
    /\ w.Date = s.EndDate + 1
    /\ ~IsNull(w.PRCP)
    /\ Val(w.PRCP) > RainCutoff

StreakRowSpan(s, w) ==
    [EndDate |-> w.Date, StartDate |-> s.StartDate,
     streak_length |-> w.Date - s.StartDate + 1, Rain |-> Val(w.PRCP)]

\* SELECT RainDate AS EndDate, StartDate, StreakDays AS streak_length, Rain
StreakRow(s, w) ==
    [EndDate |-> w.Date, StartDate |-> s.StartDate,
     streak_length |-> s.StreakDays, Rain |-> Val(w.PRCP)]

\* The window SUM(...) OVER (ORDER BY Date ROWS UNBOUNDED PRECEDING .. CURRENT ROW)
\* counts the wet rows up to the current row in date order; dates are unique
\* in the file, so the date order is total.  Every row has a date (an
\* unparseable one fails the load), so WHERE Date IS NOT NULL keeps every row.
DryStreaksQuery(W) ==
    LET idx       == DOMAIN W
        dryIdx    == {i \in idx : is_dry(W[i].PRCP) = 1}
        wetDates  == {W[i].Date : i \in idx \ dryIdx}
        wet_group(date) == Cardinality({d \in wetDates : d <= date})
        runs      == {<<wet_group(W[i].Date), i>> : i \in dryIdx}
        groups    == {p[1] : p \in runs}
        streak(g) ==
            LET members == {p[2] : p \in {q \in runs : q[1] = g}}
                dates   == {W[i].Date : i \in members}
            IN  [wet_group |-> g, StartDate |-> SetMin(dates),
                 EndDate |-> SetMax(dates), StreakDays |-> Cardinality(members)]
        streaks   == {s \in {streak(g) : g \in groups} : HavingCount(s.StreakDays)}
    IN  {StreakRow(sj[1], W[sj[2]]) :
            sj \in {x \in streaks \X idx : RainOnNextDay(x[1], W[x[2]])}}

\* The dry_streaks statement of the Climate History page.
QueryDryStreaks ==
    /\ pc = "climate"
    /\ dry_streaks' = DryStreaksQuery(weather)
    /\ pc' = "dry_streaks"
    /\ UNCHANGED <<fileVars, now_year, weather, monthVars, holidayVars, page_runs, selected, day_summary, screen,
                   monthly_temp_combined, annual_avg_sql, annual_total_prcp,
                   warmest_days, coldest_days, wettest_days>>

-----------------------------------------------------------------------------
(* day_summary *)

\* ROUND(num / den, 1), in tenths: halves round away from zero.
RoundTenths(num, den) ==
    IF num >= 0 THEN (20 * num + den) \div (2 * den)
                ELSE -((20 * (-num) + den) \div (2 * den))

\* SUM over a set of <<row, value>> pairs.
RECURSIVE SumPairs(_)
SumPairs(S) ==
    IF S = {} THEN 0
    ELSE LET x == CHOOSE y \in S : TRUE IN x[2] + SumPairs(S \ {x})

\* The pairs <<row, value>> of a column's non-null values over the rows I.
Present(W, I, col) == {<<i, Val(W[i][col])>> : i \in {j \in I : ~IsNull(W[j][col])}}

\* Column names
TAVGcol == "TAVG"
TMAXcol == "TMAX"
TMINcol == "TMIN"
PRCPcol == "PRCP"

\* ROUND(AVG(col), 1) in tenths; NULL when no value is present.
RoundAvg(W, I, col) ==
    LET P == Present(W, I, col)
    IN  IF P = {} THEN NULL ELSE Some(RoundTenths(SumPairs(P), Cardinality(P)))

MaxOf(W, I, col) ==
    LET P == Present(W, I, col)
    IN  IF P = {} THEN NULL ELSE Some(SetMax({x[2] : x \in P}))

MinOf(W, I, col) ==
    LET P == Present(W, I, col)
    IN  IF P = {} THEN NULL ELSE Some(SetMin({x[2] : x \in P}))

\* WHERE EXTRACT(MONTH FROM Date) = {month_num} AND EXTRACT(DAY FROM Date) = {selected_day}
filtered_data(W, month, day) ==
    {i \in DOMAIN W : MonthOf(W[i].Date) = month /\ DayOf(W[i].Date) = day}

ChanceDenominatorNonNull(W, I) == Cardinality(Present(W, I, PRCPcol))

\* COUNT(*)
ChanceDenominator(W, I) == Cardinality(I)

\* ROUND(SUM(CASE WHEN PRCP > 0.01 THEN 1 ELSE 0 END) * 100.0 / COUNT(*), 1), in
\* tenths of a percent.  Over no rows SUM is NULL, and so is the quotient.
ChanceOfRain(W, I) ==
    LET rainy == {i \in I : ~IsNull(W[i].PRCP) /\ Val(W[i].PRCP) > RainCutoff}
    IN  IF I = {} \/ ChanceDenominator(W, I) = 0 THEN NULL
        ELSE Some(RoundTenths(Cardinality(rainy) * 100, ChanceDenominator(W, I)))

\* The summary CTE: aggregates without GROUP BY, always one row.
summary(W, I) ==
    {[AvgTemp |-> RoundAvg(W, I, TAVGcol), AvgHigh |-> RoundAvg(W, I, TMAXcol),
      AvgLow |-> RoundAvg(W, I, TMINcol), Chance |-> ChanceOfRain(W, I),
      RecordHigh |-> MaxOf(W, I, TMAXcol), RecordLow |-> MinOf(W, I, TMINcol)]}

\* WHERE TMAX = (SELECT MAX(TMAX) FROM filtered_data): a NULL maximum matches no row.
high_date(W, I) ==
    {i \in I : ~IsNull(W[i].TMAX) /\ Some(Val(W[i].TMAX)) = MaxOf(W, I, TMAXcol)}

\* WHERE TMIN = (SELECT MIN(TMIN) FROM filtered_data)
low_date(W, I) ==
    {i \in I : ~IsNull(W[i].TMIN) /\ Some(Val(W[i].TMIN)) = MinOf(W, I, TMINcol)}

swing(r) == IF IsNull(r.TMAX) \/ IsNull(r.TMIN) THEN NULL ELSE Some(Val(r.TMAX) - Val(r.TMIN))

\* ORDER BY swing DESC (NULLs last): the rows that can come first.
biggest_swing(W, I) ==
    LET known == {i \in I : ~IsNull(swing(W[i]))}
    IN  IF known = {} THEN I
        ELSE {i \in known : \A j \in known : Val(swing(W[j])) <= Val(swing(W[i]))}

\* LIMIT 1 without a deciding order: any one of the candidate rows.
LimitOne(C) == IF C = {} THEN {{}} ELSE {{c} : c \in C}

NullRow == {0}

LeftJoin(W, S, H, L, B) ==
    {[AvgTemp |-> x[1].AvgTemp, AvgHigh |-> x[1].AvgHigh, AvgLow |-> x[1].AvgLow,
      Chance |-> x[1].Chance, RecordHigh |-> x[1].RecordHigh, RecordLow |-> x[1].RecordLow,
      RecordHighDate |-> IF x[2] = 0 THEN NULL ELSE Some(W[x[2]].Date),
      RecordLowDate |-> IF x[3] = 0 THEN NULL ELSE Some(W[x[3]].Date),
      Date |-> IF x[4] = 0 THEN NULL ELSE Some(W[x[4]].Date),
      TMAX |-> IF x[4] = 0 THEN NULL ELSE W[x[4]].TMAX,
      TMIN |-> IF x[4] = 0 THEN NULL ELSE W[x[4]].TMIN,
      swing |-> IF x[4] = 0 THEN NULL ELSE swing(W[x[4]])] :
        x \in S \X (IF H = {} THEN NullRow ELSE H) \X (IF L = {} THEN NullRow ELSE L)
                \X (IF B = {} THEN NullRow ELSE B)}

\* SELECT * FROM summary CROSS JOIN high_date CROSS JOIN low_date CROSS JOIN biggest_swing
CrossJoin(W, S, H, L, B) ==
    {[AvgTemp |-> x[1].AvgTemp, AvgHigh |-> x[1].AvgHigh, AvgLow |-> x[1].AvgLow,
      Chance |-> x[1].Chance, RecordHigh |-> x[1].RecordHigh, RecordLow |-> x[1].RecordLow,
      RecordHighDate |-> Some(W[x[2]].Date), RecordLowDate |-> Some(W[x[3]].Date),
      Date |-> Some(W[x[4]].Date), TMAX |-> W[x[4]].TMAX, TMIN |-> W[x[4]].TMIN,
      swing |-> swing(W[x[4]])] :
        x \in S \X H \X L \X B}

\* The results the day_summary query can return.
DaySummaryQuery(W, month, day) ==
    LET I == filtered_data(W, month, day)
    IN  {CrossJoin(W, summary(W, I), c[1], c[2], c[3]) :
            c \in LimitOne(high_date(W, I)) \X LimitOne(low_date(W, I))
                  \X LimitOne(biggest_swing(W, I))}

\* if not day_summary.empty: metrics ... else: st.warning(...)
Render(result) == IF result # {} THEN "metrics" ELSE "warning"

\* The widgets, the day_summary statement and the rendering of its result.
QueryDaySummary(month, day) ==
    /\ pc = "climate"
    /\ selected' = [month |-> month, day |-> day]
    /\ \E result \in DaySummaryQuery(weather, month, day) :
        /\ day_summary' = result
        /\ screen' = Render(result)
    /\ pc' = "day_summary"
    /\ UNCHANGED <<fileVars, now_year, weather, monthVars, holidayVars, page_runs, dry_streaks,
                   monthly_temp_combined, annual_avg_sql, annual_total_prcp,
                   warmest_days, coldest_days, wettest_days>>

-----------------------------------------------------------------------------
(* Snapshot page: monthly_temp_combined *)

\* ORDER BY an integer key, ascending: the keys of S in order.
RECURSIVE Ascending(_)
Ascending(S) ==
    IF S = {} THEN <<>> ELSE <<SetMin(S)>> \o Ascending(S \ {SetMin(S)})

\* AVG over <<row, value>> pairs, kept exact.
Avg(P) == [num |-> SumPairs(P), den |-> Cardinality(P)]

\* WHERE "TMIN ..." IS NOT NULL AND "TMAX ..." IS NOT NULL
BothPresent(r) == ~IsNull(r.TMIN) /\ ~IsNull(r.TMAX)

MinLowAsMax(P) == SetMax({x[2] : x \in P})

\* MIN("TMIN (Degrees Fahrenheit)") AS MinLow
MinLow(P) == SetMin({x[2] : x \in P})

\* MAX("TMAX (Degrees Fahrenheit)") AS MaxHigh
MaxHigh(P) == SetMax({x[2] : x \in P})

MonthlyTempQuery(W) ==
    LET I      == {i \in DOMAIN W : BothPresent(W[i])}
        months == {MonthOf(W[i].Date) : i \in I}
        row(mo) ==
            LET G == {i \in I : MonthOf(W[i].Date) = mo}
            IN  [Month |-> mo,
                 AvgLow |-> Avg(Present(W, G, TMINcol)),
                 AvgHigh |-> Avg(Present(W, G, TMAXcol)),
                 MinLow |-> MinLow(Present(W, G, TMINcol)),
                 MaxHigh |-> MaxHigh(Present(W, G, TMAXcol))]
        order  == Ascending(months)
    IN  [k \in DOMAIN order |-> row(order[k])]

QueryMonthlyTemp ==
    /\ pc = "snapshot"
    /\ monthly_temp_combined' = MonthlyTempQuery(weather)
    /\ pc' = "monthly_temp_combined"
    /\ UNCHANGED <<fileVars, now_year, weather, monthVars, holidayVars, page_runs, selected, day_summary, screen, dry_streaks,
                   annual_avg_sql, annual_total_prcp, warmest_days, coldest_days, wettest_days>>

-----------------------------------------------------------------------------
(* Snapshot page: annual_avg_sql, annual_total_prcp *)

\* WHERE Year < 2025
BeforeCutoff(r) == r.Year < AnnualCutoff

\* AVG(col) per Year; NULL when the year has no value.
AnnualAvgQuery(W) ==
    LET I     == {i \in DOMAIN W : BeforeCutoff(W[i])}
        order == Ascending({W[i].Year : i \in I})
        row(y) ==
            LET P == Present(W, {i \in I : W[i].Year = y}, TAVGcol)
            IN  [Year |-> y, avg_temp |-> IF P = {} THEN NULL ELSE Some(Avg(P))]
    IN  [k \in DOMAIN order |-> row(order[k])]

\* SUM(col) per Year; NULL when the year has no value.
AnnualTotalQuery(W) ==
    LET I     == {i \in DOMAIN W : BeforeCutoff(W[i])}
        order == Ascending({W[i].Year : i \in I})
        row(y) ==
            LET P == Present(W, {i \in I : W[i].Year = y}, PRCPcol)
            IN  [Year |-> y, total |-> IF P = {} THEN NULL ELSE Some(SumPairs(P))]
    IN  [k \in DOMAIN order |-> row(order[k])]

QueryAnnualAvg ==
    /\ pc = "snapshot"
    /\ annual_avg_sql' = AnnualAvgQuery(weather)
    /\ pc' = "annual_avg_sql"
    /\ UNCHANGED <<fileVars, now_year, weather, monthVars, holidayVars, page_runs, selected, day_summary, screen, dry_streaks,
                   monthly_temp_combined, annual_total_prcp,
                   warmest_days, coldest_days, wettest_days>>

QueryAnnualTotal ==
    /\ pc = "snapshot"
    /\ annual_total_prcp' = AnnualTotalQuery(weather)
    /\ pc' = "annual_total_prcp"
    /\ UNCHANGED <<fileVars, now_year, weather, monthVars, holidayVars, page_runs, selected, day_summary, screen, dry_streaks,
                   monthly_temp_combined, annual_avg_sql,
                   warmest_days, coldest_days, wettest_days>>

-----------------------------------------------------------------------------
(* Snapshot page: warmest_days, coldest_days, wettest_days *)

\* ORDER BY has one key and no tie-breaker: SQL leaves the order of rows with
\* equal keys to the engine.  The engine emits them in scan order or against it.
PeerOrders == {"scan", "reverse"}

PeerBefore(peers, i, j) == IF peers = "scan" THEN i < j ELSE i > j

Min2(a, b) == IF a <= b THEN a ELSE b

\* LIMIT 10
Limit(n) == Min2(n, TopLimit)

KeepNulls(x) == TRUE

\* WHERE col IS NOT NULL
NotNull(x) == ~IsNull(x)

\* SELECT Date, col FROM weather WHERE col IS NOT NULL ORDER BY col <dir> LIMIT 10
TopDaysQuery(W, col, descending, peers) ==
    LET I == {i \in DOMAIN W : NotNull(W[i][col])}
        v(i) == IF IsNull(W[i][col]) THEN 0 ELSE Val(W[i][col])   \* I holds no NULL
        before(i, j) ==
            \/ (IF descending THEN v(i) > v(j) ELSE v(i) < v(j))
            \/ (v(i) = v(j) /\ PeerBefore(peers, i, j))
        rank(i) == 1 + Cardinality({j \in I : before(j, i)})
        at(k) == CHOOSE i \in I : rank(i) = k
    IN  [k \in 1..Limit(Cardinality(I)) |-> [Date |-> W[at(k)].Date, value |-> W[at(k)][col]]]

QueryWarmestDays ==
    /\ pc = "snapshot"
    /\ \E peers \in PeerOrders : warmest_days' = TopDaysQuery(weather, TMAXcol, TRUE, peers)
    /\ pc' = "warmest_days"
    /\ UNCHANGED <<fileVars, now_year, weather, monthVars, holidayVars, page_runs, selected, day_summary, screen, dry_streaks,
                   monthly_temp_combined, annual_avg_sql, annual_total_prcp,
                   coldest_days, wettest_days>>

QueryColdestDays ==
    /\ pc = "snapshot"
    /\ \E peers \in PeerOrders : coldest_days' = TopDaysQuery(weather, TMINcol, FALSE, peers)
    /\ pc' = "coldest_days"
    /\ UNCHANGED <<fileVars, now_year, weather, monthVars, holidayVars, page_runs, selected, day_summary, screen, dry_streaks,
                   monthly_temp_combined, annual_avg_sql, annual_total_prcp,
                   warmest_days, wettest_days>>

QueryWettestDays ==
    /\ pc = "snapshot"
    /\ \E peers \in PeerOrders : wettest_days' = TopDaysQuery(weather, PRCPcol, TRUE, peers)
    /\ pc' = "wettest_days"
    /\ UNCHANGED <<fileVars, now_year, weather, monthVars, holidayVars, page_runs, selected, day_summary, screen, dry_streaks,
                   monthly_temp_combined, annual_avg_sql, annual_total_prcp,
                   warmest_days, coldest_days>>

-----------------------------------------------------------------------------
(* Snapshot page: warmest_months, coldest_months, wettest_months *)

\* STRFTIME(Date, '%Y-%m'): the year and the month of the date
YearMonth(date) == <<YearOf(date), MonthOf(date)>>

\* .dt.strftime('%B %Y'): the month's name and the year
MonthLabel(date) == [month |-> MonthOf(date), year |-> YearOf(date)]

SampleDateLatest(W, M) == SetMax({W[i].Date : i \in M})

\* MIN(Date) AS SampleDate over the rows M of a group
SampleDate(W, M) == SetMin({W[i].Date : i \in M})

\* ROUND(AVG(col), 1) in tenths (rounded is TRUE), or SUM(col), over the rows M
MonthAggregate(W, M, col, rounded) ==
    IF rounded THEN RoundTenths(SumPairs(Present(W, M, col)), Cardinality(Present(W, M, col)))
               ELSE SumPairs(Present(W, M, col))

\* SELECT MIN(Date) AS SampleDate, <aggregate> FROM weather WHERE col IS NOT NULL
\* GROUP BY STRFTIME(Date, '%Y-%m') ORDER BY <aggregate> <dir> LIMIT 10,
\* then the Date column written from SampleDate.
TopMonthsQuery(W, col, rounded, descending, peers) ==
    LET I == {i \in DOMAIN W : NotNull(W[i][col])}
        G == {YearMonth(W[i].Date) : i \in I}
        M(g) == {i \in I : YearMonth(W[i].Date) = g}
        groups == {[SampleDate |-> SampleDate(W, M(g)),
                    value |-> MonthAggregate(W, M(g), col, rounded)] : g \in G}
        before(a, b) ==
            \/ (IF descending THEN a.value > b.value ELSE a.value < b.value)
            \/ (a.value = b.value /\ PeerBefore(peers, a.SampleDate, b.SampleDate))
        rank(a) == 1 + Cardinality({b \in groups : before(b, a)})
        at(k) == CHOOSE a \in groups : rank(a) = k
    IN  [k \in 1..Limit(Cardinality(groups)) |->
            [SampleDate |-> at(k).SampleDate,
             Date |-> MonthLabel(at(k).SampleDate),
             value |-> at(k).value]]

QueryWarmestMonths ==
    /\ pc = "snapshot"
    /\ \E peers \in PeerOrders :
        warmest_months' = TopMonthsQuery(weather, TAVGcol, TRUE, TRUE, peers)
    /\ pc' = "warmest_months"
    /\ UNCHANGED <<fileVars, now_year, weather, selected, day_summary, screen, dry_streaks,
                   monthly_temp_combined, annual_avg_sql, annual_total_prcp,
                   warmest_days, coldest_days, wettest_days,
                   coldest_months, wettest_months, holidayVars, page_runs>>

QueryColdestMonths ==
    /\ pc = "snapshot"
    /\ \E peers \in PeerOrders :
        coldest_months' = TopMonthsQuery(weather, TAVGcol, TRUE, FALSE, peers)
    /\ pc' = "coldest_months"
    /\ UNCHANGED <<fileVars, now_year, weather, selected, day_summary, screen, dry_streaks,
                   monthly_temp_combined, annual_avg_sql, annual_total_prcp,
                   warmest_days, coldest_days, wettest_days,
                   warmest_months, wettest_months, holidayVars, page_runs>>

QueryWettestMonths ==
    /\ pc = "snapshot"
    /\ \E peers \in PeerOrders :
        wettest_months' = TopMonthsQuery(weather, PRCPcol, FALSE, TRUE, peers)
    /\ pc' = "wettest_months"
    /\ UNCHANGED <<fileVars, now_year, weather, selected, day_summary, screen, dry_streaks,
                   monthly_temp_combined, annual_avg_sql, annual_total_prcp,
                   warmest_days, coldest_days, wettest_days,
                   warmest_months, coldest_months, holidayVars, page_runs>>

-----------------------------------------------------------------------------
(* Holiday Outlook page: the table it registers, get_variable_holiday_dates *)

\* .fillna: TMAX takes TAVG where it is missing, PRCP takes 0
FillNa(df) ==
    [i \in DOMAIN df |->
        [df[i] EXCEPT !.TMAX = IF IsNull(df[i].TMAX) THEN df[i].TAVG ELSE df[i].TMAX,
                      !.PRCP = IF IsNull(df[i].PRCP) THEN Some(0) ELSE df[i].PRCP]]

\* 2_Holiday Outlook.py up to duckdb.register("weather", weather_df)
LoadHoliday ==
    /\ pc = "data"
    /\ weather' = FillNa(WithYear(load_data(csv)))
    /\ pc' = "holiday"
    /\ UNCHANGED <<fileVars, now_year, selected, resultVars>>

\* .dt.dayofweek: Monday is 0, Sunday is 6 (1970-01-01 was a Thursday)
dayofweek(date) == (date + 3) % 7

\* pd.date_range(start, end) filtered on the day of the week
DaysOfWeekIn(start, end, dow) == {d \in start..end : dayofweek(d) = dow}

\* strftime("%Y-%m-%d"): the year, the month and the day of the date
strftime(date) == [Y |-> YearOf(date), m |-> MonthOf(date), d |-> DayOf(date)]

memorial(y) == SetMax(DaysOfWeekIn(ParseDate(y, 5, 1), ParseDate(y, 5, 31), 0))

labor(y) == SetMin(DaysOfWeekIn(ParseDate(y, 9, 1), ParseDate(y, 9, 7), 0))

thursdays(y) == DaysOfWeekIn(ParseDate(y, 11, 1), ParseDate(y, 11, 30), 3)

\* The element at position n, counted from 0, of a set of dates in order.
iloc(S, n) == CHOOSE d \in S : Cardinality({e \in S : e < d}) = n

thanksgiving_third(y) == iloc(thursdays(y), 2)

thanksgiving(y) == iloc(thursdays(y), 3)

\* One turn of `for year in years` in get_variable_holiday_dates.
AppendHolidayDates ==
    /\ pc = "holiday"
    /\ year <= now_year
    /\ holiday_dates' =
        [Memorial |-> Append(holiday_dates.Memorial, strftime(memorial(year))),
         Labor |-> Append(holiday_dates.Labor, strftime(labor(year))),
         Thanksgiving |-> Append(holiday_dates.Thanksgiving, strftime(thanksgiving(year)))]
    /\ year' = year + 1
    /\ UNCHANGED <<fileVars, now_year, weather, pc, selected, day_summary, screen,
                   dry_streaks, monthly_temp_combined, annual_avg_sql, annual_total_prcp,
                   warmest_days, coldest_days, wettest_days, monthVars, page_runs>>

\* The range is exhausted: variable_holidays = get_variable_holiday_dates()
ReturnHolidayDates ==
    /\ pc = "holiday"
    /\ year > now_year
    /\ pc' = "variable_holidays"
    /\ UNCHANGED <<fileVars, now_year, weather, selected, resultVars>>

-----------------------------------------------------------------------------
(* Page runs of several sessions in the one server process.  Each run      *)
(* executes its page's script from the top; duckdb.register and            *)
(* duckdb.query act on the default connection of the process, where the    *)
(* name "weather" is bound to one table at a time.                         *)

Pages == {"Snapshot", "Holiday", "Climate"}

\* No view is bound to the name "weather".
NoView == <<>>

\* The frame a page's script holds when it reaches its first statement on
\* the connection: load_data(), Year and Decade, and the Holiday page's fillna.
PageFrame(page) ==
    IF page = "Holiday" THEN FillNa(WithYear(load_data(csv)))
                        ELSE WithYear(load_data(csv))

\* A session starts (or reruns) a page: the script runs up to its first
\* statement on the connection.
StartRun(s, page) ==
    /\ pc = "serving"
    /\ page_runs[s].at \in {"idle", "queried", "failed"}
    /\ page_runs' = [page_runs EXCEPT ![s] =
            [page |-> page, at |-> "loaded", df |-> PageFrame(page),
             read |-> <<>>, failed |-> FALSE]]
    /\ UNCHANGED <<fileVars, now_year, weather, pc, selected, day_summary, screen,
                   dry_streaks, monthly_temp_combined, annual_avg_sql, annual_total_prcp,
                   warmest_days, coldest_days, wettest_days, monthVars, holidayVars>>

\* Holiday page: duckdb.sql("DROP VIEW IF EXISTS weather")
DropView(s) ==
    /\ pc = "serving"
    /\ page_runs[s].page = "Holiday"
    /\ page_runs[s].at = "loaded"
    /\ weather' = NoView
    /\ page_runs' = [page_runs EXCEPT ![s].at = "dropped"]
    /\ UNCHANGED <<fileVars, now_year, pc, selected, day_summary, screen,
                   dry_streaks, monthly_temp_combined, annual_avg_sql, annual_total_prcp,
                   warmest_days, coldest_days, wettest_days, monthVars, holidayVars>>

\* duckdb.register("weather", df): the name is bound to the run's frame.
\* The Climate page registers once here and once more after Month and Day.
Register(s) ==
    /\ pc = "serving"
    /\ \/ page_runs[s].page \in {"Snapshot", "Climate"} /\ page_runs[s].at = "loaded"
       \/ page_runs[s].page = "Holiday" /\ page_runs[s].at = "dropped"
    /\ weather' = page_runs[s].df
    /\ page_runs' = [page_runs EXCEPT ![s].at =
            IF page_runs[s].page = "Climate" THEN "registered_once" ELSE "registered"]
    /\ UNCHANGED <<fileVars, now_year, pc, selected, day_summary, screen,
                   dry_streaks, monthly_temp_combined, annual_avg_sql, annual_total_prcp,
                   warmest_days, coldest_days, wettest_days, monthVars, holidayVars>>

\* Climate page: df["Month"], df["Day"], duckdb.register("weather", df)
RegisterAgain(s) ==
    /\ pc = "serving"
    /\ page_runs[s].at = "registered_once"
    /\ weather' = WithMonthDay(page_runs[s].df)
    /\ page_runs' = [page_runs EXCEPT ![s].df = WithMonthDay(page_runs[s].df),
                                      ![s].at = "registered"]
    /\ UNCHANGED <<fileVars, now_year, pc, selected, day_summary, screen,
                   dry_streaks, monthly_temp_combined, annual_avg_sql, annual_total_prcp,
                   warmest_days, coldest_days, wettest_days, monthVars, holidayVars>>

\* duckdb.query("... FROM weather ..."): the statement reads the table the
\* name is bound to when it runs, and raises when the name is not bound.
QueryWeather(s) ==
    /\ pc = "serving"
    /\ page_runs[s].at \in {"registered", "queried"}
    /\ page_runs' = [page_runs EXCEPT ![s] =
            IF weather = NoView
            THEN [@ EXCEPT !.at = "failed", !.failed = TRUE]
            ELSE [@ EXCEPT !.at = "queried", !.read = weather]]
    /\ UNCHANGED <<fileVars, now_year, weather, pc, selected, day_summary, screen,
                   dry_streaks, monthly_temp_combined, annual_avg_sql, annual_total_prcp,
                   warmest_days, coldest_days, wettest_days, monthVars, holidayVars>>

-----------------------------------------------------------------------------
(* Readings used to write the data file *)

Readings(tavg, tmax, tmin, prcp) == [TAVG |-> tavg, TMAX |-> tmax, TMIN |-> tmin, PRCP |-> prcp]

InitCommon ==
    /\ csv = <<>>
    /\ segs = 0
    /\ weather = <<>>
    /\ pc = "data"
    /\ selected = [month |-> 7, day |-> 15]
    /\ day_summary = {}
    /\ screen = "none"
    /\ dry_streaks = {}
    /\ monthly_temp_combined = <<>>
    /\ annual_avg_sql = <<>>
    /\ annual_total_prcp = <<>>
    /\ warmest_days = <<>>
    /\ coldest_days = <<>>
    /\ wettest_days = <<>>
    /\ warmest_months = <<>>
    /\ coldest_months = <<>>
    /\ wettest_months = <<>>
    /\ year = FirstYear
    /\ holiday_dates = NoHolidayDates
    /\ page_runs = [s \in Sessions |-> NoRun]

-----------------------------------------------------------------------------
(* Specification of the dry-streak detector *)

MaxDrySegs == 4

\* dry (0), dry (blank), trace (0.01), rain (0.5)
DryReadings ==
    { Readings(Some(65), Some(75), Some(55), Some(0)),
      Readings(Some(65), Some(75), Some(55), NULL),
      Readings(Some(65), Some(75), Some(55), Some(1)),
      Readings(Some(65), Some(75), Some(55), Some(50)) }

LongSpell == StreakDays - 1

InitDry ==
    /\ InitCommon
    /\ cursor = ParseDate(1949, 1, 1)
    /\ now_year = 2025

AppendDry ==
    /\ segs < MaxDrySegs
    /\ \/ \E p \in DryReadings : AppendDays(p, 1)
       \/ AppendDays(Readings(Some(65), Some(75), Some(55), Some(0)), LongSpell)

SkipOne ==
    /\ segs < MaxDrySegs
    /\ csv # <<>>
    /\ SkipDays(1)

NextDry == AppendDry \/ SkipOne \/ LoadClimate \/ QueryDryStreaks

SpecDry == InitDry /\ [][NextDry]_vars

-----------------------------------------------------------------------------
(* Claims about the dry-streak detector, stated on the registered table    *)
(* itself: the dry days, the calendar runs and the day after a run are     *)
(* read off the records, not off the query.                                *)

RecordDates(W) == {W[i].Date : i \in DOMAIN W}
DryDates(W) == {W[i].Date : i \in {j \in DOMAIN W : IsNull(W[j].PRCP) \/ Val(W[j].PRCP) = 0}}
PrcpOn(W, date) == LET i == CHOOSE j \in DOMAIN W : W[j].Date = date IN W[i].PRCP

\* Maximal runs of calendar-consecutive dry days.
CalendarRuns(W) ==
    LET dry    == DryDates(W)
        starts == {d \in dry : (d - 1) \notin dry}
        ends   == {d \in dry : (d + 1) \notin dry}
    IN  {[first |-> s, last |-> SetMin({e \in ends : e >= s})] : s \in starts}

RunLength(R) == R.last - R.first + 1

\* The day after the run has a record with more than 0.01 inch.
BrokenByRain(W, R) ==
    /\ (R.last + 1) \in RecordDates(W)
    /\ ~IsNull(PrcpOn(W, R.last + 1))
    /\ Val(PrcpOn(W, R.last + 1)) > 1

Gapless(W) == \A i \in 1..(Len(W) - 1) : W[i + 1].Date = W[i].Date + 1

\* The reported rows that overlap the run R.
RowsOver(R) == {r \in dry_streaks : r.StartDate <= R.last /\ r.EndDate >= R.first}

DryDone == pc = "dry_streaks"

\* C1 as stated: on a gapless series every run of L >= 150 dry days followed
\* by a day with more than 0.01 inch yields exactly one row, with start = the
\* first dry day, end = the last dry day, length = L and rain = the amount of
\* the following day.
C1_EndIsLastDryDay ==
    (DryDone /\ Gapless(weather)) =>
        \A R \in CalendarRuns(weather) :
            (RunLength(R) >= 150 /\ BrokenByRain(weather, R)) =>
                /\ Cardinality(RowsOver(R)) = 1
                /\ \A r \in RowsOver(R) :
                    /\ r.StartDate = R.first
                    /\ r.EndDate = R.last
                    /\ r.streak_length = RunLength(R)
                    /\ r.Rain = Val(PrcpOn(weather, R.last + 1))

\* C1 amended: as above, but the row's EndDate is the day of the breaking
\* rain, one day after the last dry day.
C1_OneRowPerBrokenRun ==
    (DryDone /\ Gapless(weather)) =>
        \A R \in CalendarRuns(weather) :
            (RunLength(R) >= 150 /\ BrokenByRain(weather, R)) =>
                /\ Cardinality(RowsOver(R)) = 1
                /\ \A r \in RowsOver(R) :
                    /\ r.StartDate = R.first
                    /\ r.EndDate = R.last + 1
                    /\ r.streak_length = RunLength(R)
                    /\ r.Rain = Val(PrcpOn(weather, R.last + 1))

C1_Witness ==
    /\ DryDone /\ Gapless(weather)
    /\ \E R \in CalendarRuns(weather) :
        /\ RunLength(R) = 151 /\ BrokenByRain(weather, R)
        /\ \E i \in DOMAIN weather : weather[i].Date \in R.first..R.last /\ IsNull(weather[i].PRCP)
        /\ RowsOver(R) # {}

\* C2: no reported streak has fewer than 150 dry days; a maximal dry run of
\* exactly 149 days is not reported; a run of exactly 150 days followed by a
\* day with more than 0.01 inch is reported.
C2_ThresholdBoundary ==
    DryDone =>
        /\ \A r \in dry_streaks : r.streak_length >= 150
        /\ \A R \in CalendarRuns(weather) :
            /\ RunLength(R) = 149 =>
                ~ \E r \in dry_streaks : r.StartDate = R.first /\ r.EndDate = R.last + 1
            /\ (RunLength(R) = 150 /\ BrokenByRain(weather, R)) =>
                \E r \in dry_streaks :
                    /\ r.EndDate = R.last + 1
                    /\ r.StartDate <= R.first
                    /\ Gapless(weather) => (r.StartDate = R.first /\ r.streak_length = 150)

C2_Witness ==
    /\ DryDone /\ Gapless(weather)
    /\ \E R \in CalendarRuns(weather) :
        /\ RunLength(R) = 150 /\ BrokenByRain(weather, R)
        /\ \E r \in dry_streaks : r.StartDate = R.first /\ r.streak_length = 150

C2_Witness149 ==
    /\ DryDone
    /\ dry_streaks = {}
    /\ \E R \in CalendarRuns(weather) : RunLength(R) = 149 /\ BrokenByRain(weather, R)

\* C3: every reported streak is a run of calendar-contiguous dry records:
\* every date from its start to the day before the breaking rain has a dry
\* record, so records on both sides of a missing date are never in one streak.
C3_StreaksAreContiguous ==
    DryDone =>
        \A r \in dry_streaks :
            /\ \A d \in r.StartDate..(r.EndDate - 1) : d \in DryDates(weather)
            /\ r.streak_length = r.EndDate - r.StartDate

\* C4: a dry run of length >= 150 is in the output exactly when the table
\* has a record dated the day after the run's last dry day with more than
\* 0.01 inch; otherwise it is left out.
C4_ReportedIffBrokenByRain ==
    DryDone =>
        \A R \in CalendarRuns(weather) :
            RunLength(R) >= 150 =>
                ((\E r \in dry_streaks : r.EndDate = R.last + 1) <=> BrokenByRain(weather, R))

\* A qualifying run ended by a 0.01 inch day is left out.
C4_Witness ==
    /\ DryDone
    /\ \E R \in CalendarRuns(weather) :
        /\ RunLength(R) >= 150
        /\ (R.last + 1) \in RecordDates(weather)
        /\ PrcpOn(weather, R.last + 1) = Some(1)
        /\ RowsOver(R) = {}

C4_WitnessEndOfData ==
    /\ DryDone
    /\ \E R \in CalendarRuns(weather) :
        /\ RunLength(R) >= 150
        /\ R.last = weather[Len(weather)].Date
        /\ dry_streaks = {}

C4_WitnessReported ==
    /\ DryDone
    /\ \E R \in CalendarRuns(weather) :
        /\ RunLength(R) >= 150 /\ BrokenByRain(weather, R)
        /\ \E r \in dry_streaks : r.EndDate = R.last + 1

-----------------------------------------------------------------------------
(* Specification of the calendar-day climatology *)

MaxDaySegs == 4

DayReadings ==
    { Readings(Some(70), Some(80), Some(60), Some(0)),
      Readings(Some(70), Some(95), Some(50), Some(50)),
      Readings(Some(70), Some(80), Some(60), NULL),
      Readings(Some(65), NULL, Some(55), Some(1)),
      Readings(Some(65), Some(75), NULL, Some(0)) }

\* Selections of the month and day widgets (any of 12 x 31 can be chosen).
DaySelections == {<<2, 28>>, <<2, 29>>, <<2, 30>>, <<3, 1>>, <<7, 15>>}

YearStep == 365 - 1

InitDay ==
    /\ InitCommon
    /\ cursor \in {ParseDate(1951, 2, 28), ParseDate(1953, 2, 28)}
    /\ now_year = 2025

AppendDay ==
    /\ segs < MaxDaySegs
    /\ \E p \in DayReadings : AppendDays(p, 1)

SkipToNextYear ==
    /\ segs < MaxDaySegs
    /\ csv # <<>>
    /\ SkipDays(YearStep)

SelectAndQueryDay == \E s \in DaySelections : QueryDaySummary(s[1], s[2])

NextDay == AppendDay \/ SkipToNextYear \/ LoadClimate \/ SelectAndQueryDay

SpecDay == InitDay /\ [][NextDay]_vars

-----------------------------------------------------------------------------
(* Claims about the calendar-day climatology *)

DayDone == pc = "day_summary"

\* The records of the table on the selected calendar day.
Matching == {i \in DOMAIN weather :
                Civil(weather[i].Date).month = selected.month
                /\ Civil(weather[i].Date).day = selected.day}
MatchingRainy == {i \in Matching : weather[i].PRCP # NULL /\ weather[i].PRCP[1] > 1}
MatchingMeasured == {i \in Matching : weather[i].PRCP # NULL}

\* Nearest tenth of 100 * a / b, as tenths of a percent.
PercentTenths(a, b) == (2000 * a + b) \div (2 * b)

\* C9 as stated: the chance of rain is 100 * (matching days with more than
\* 0.01 inch) / (matching days with non-null precipitation).
C9_DenominatorNonNull ==
    (DayDone /\ MatchingMeasured # {}) =>
        \A r \in day_summary :
            r.Chance = Some(PercentTenths(Cardinality(MatchingRainy), Cardinality(MatchingMeasured)))

\* C9 amended: the chance of rain is 100 * (matching days with more than
\* 0.01 inch) / (all matching days, null precipitation included), to one decimal.
C9_DenominatorAllRows ==
    DayDone =>
        \A r \in day_summary :
            r.Chance = Some(PercentTenths(Cardinality(MatchingRainy), Cardinality(Matching)))

C9_Witness ==
    /\ DayDone
    /\ day_summary # {}
    /\ MatchingRainy # {}
    /\ MatchingMeasured # Matching

\* C10: a (month, day) that matches no record yields the empty result, shown
\* as the warning; it yields no summary row.
C10_NoMatchIsNoData ==
    (DayDone /\ Matching = {}) => (day_summary = {} /\ screen = "warning")

C10_Witness ==
    /\ DayDone
    /\ selected = [month |-> 2, day |-> 29]
    /\ Matching = {}
    /\ \E i \in DOMAIN weather : Civil(weather[i].Date).month = 2
    /\ screen = "warning"

C10_WitnessFeb30 ==
    /\ DayDone
    /\ selected = [month |-> 2, day |-> 30]
    /\ Len(weather) > 2
    /\ screen = "warning"

\* C14: the no-data result comes only when no record matches the selected
\* day: whenever at least one record matches, a one-row summary is produced
\* and shown, also when every matching record lacks tmax or lacks tmin.
C14_SummaryWheneverMatch ==
    (DayDone /\ Matching # {}) => (Cardinality(day_summary) = 1 /\ screen = "metrics")

\* What does hold: a summary row is produced exactly when some matching
\* record has a tmax and some matching record has a tmin.
DaySummaryNeedsBothExtremes ==
    DayDone =>
        ((day_summary # {}) <=>
            /\ \E i \in Matching : weather[i].TMAX # NULL
            /\ \E i \in Matching : weather[i].TMIN # NULL)

-----------------------------------------------------------------------------
(* Specification of the monthly climatology *)

MaxMonthSegs == 3

\* (tmin, tmax): mild, hot, tmin missing, and a row with tmin above tmax
MonthReadings ==
    { Readings(Some(60), Some(70), Some(50), Some(0)),
      Readings(Some(75), Some(90), Some(60), Some(0)),
      Readings(Some(75), Some(99), NULL, Some(0)),
      Readings(Some(70), Some(60), Some(80), Some(0)) }

\* Twelve observations 31 days apart fall in twelve different months.
SweepRows == 12
SweepEvery == 31

InitMonth ==
    /\ InitCommon
    /\ cursor = ParseDate(1949, 1, 1)
    /\ now_year = 2025

AppendMonthDay ==
    /\ segs < MaxMonthSegs
    /\ \E p \in MonthReadings : AppendDays(p, 1)

AppendMonthSweep ==
    /\ segs < MaxMonthSegs
    /\ \E p \in MonthReadings : AppendRows(p, SweepRows, SweepEvery)

NextMonth == AppendMonthDay \/ AppendMonthSweep \/ LoadSnapshot \/ QueryMonthlyTemp

SpecMonth == InitMonth /\ [][NextMonth]_vars

-----------------------------------------------------------------------------
(* Claims about the monthly climatology *)

MonthDone == pc = "monthly_temp_combined"

\* MinLow <= AvgLow <= AvgHigh <= MaxHigh, the averages being num / den.
Chain(r) ==
    /\ r.MinLow * r.AvgLow.den <= r.AvgLow.num
    /\ r.AvgLow.num * r.AvgHigh.den <= r.AvgHigh.num * r.AvgLow.den
    /\ r.AvgHigh.num <= r.MaxHigh * r.AvgHigh.den

\* The records of month mo whose tmin and tmax are both present.
Complete(mo) == {i \in DOMAIN weather :
                    /\ Civil(weather[i].Date).month = mo
                    /\ weather[i].TMIN # NULL /\ weather[i].TMAX # NULL}

\* C5 as stated: exactly one row for each month 1..12, in the order 1 to 12,
\* and MinLow <= AvgLow <= AvgHigh <= MaxHigh in every row.
C5_TwelveRowsChain ==
    (MonthDone /\ weather # <<>>) =>
        /\ Len(monthly_temp_combined) = 12
        /\ \A k \in DOMAIN monthly_temp_combined :
            /\ monthly_temp_combined[k].Month = k
            /\ Chain(monthly_temp_combined[k])

\* C5 amended: one row for each month that has a record with tmin and tmax
\* both present, and no other row, in ascending month order (so 12 rows,
\* 1 to 12, when every month has such a record); in every row
\* MinLow <= AvgLow and AvgHigh <= MaxHigh, and AvgLow <= AvgHigh when no
\* contributing record has tmin above tmax.
C5_RowPerMonthPresent ==
    MonthDone =>
        /\ \A k \in DOMAIN monthly_temp_combined : monthly_temp_combined[k].Month \in 1..12
        /\ \A k \in 1..(Len(monthly_temp_combined) - 1) :
            monthly_temp_combined[k].Month < monthly_temp_combined[k + 1].Month
        /\ {monthly_temp_combined[k].Month : k \in DOMAIN monthly_temp_combined}
               = {mo \in 1..12 : Complete(mo) # {}}
        /\ \A k \in DOMAIN monthly_temp_combined :
            LET r == monthly_temp_combined[k]
            IN  /\ r.MinLow * r.AvgLow.den <= r.AvgLow.num
                /\ r.AvgHigh.num <= r.MaxHigh * r.AvgHigh.den
                /\ (\A i \in Complete(r.Month) : weather[i].TMIN[1] <= weather[i].TMAX[1])
                      => r.AvgLow.num * r.AvgHigh.den <= r.AvgHigh.num * r.AvgLow.den
                /\ \A i \in Complete(r.Month) :
                      r.MinLow <= weather[i].TMIN[1] /\ weather[i].TMAX[1] <= r.MaxHigh

\* Twelve rows, a month whose low varies, and a record left out for its null tmin.
C5_Witness ==
    /\ MonthDone
    /\ Len(monthly_temp_combined) = 12
    /\ \E k \in DOMAIN monthly_temp_combined :
        LET r == monthly_temp_combined[k]
        IN  r.MinLow * r.AvgLow.den < r.AvgLow.num /\ r.AvgHigh.num < r.MaxHigh * r.AvgHigh.den
    /\ \E i \in DOMAIN weather : weather[i].TMIN = NULL

-----------------------------------------------------------------------------
(* Specification of the annual summaries *)

MaxYearSegs == 5

YearReadings ==
    { Readings(Some(60), Some(70), Some(50), Some(10)),
      Readings(NULL, Some(70), Some(50), NULL) }

ClockYears == {2024, 2025, 2026}

InitYear ==
    /\ InitCommon
    /\ cursor = ParseDate(2023, 12, 31)
    /\ now_year \in ClockYears

\* The file holds no observation of a year after the clock's.
AppendYearDay ==
    /\ segs < MaxYearSegs
    /\ YearOf(cursor) <= now_year
    /\ \E p \in YearReadings : AppendDays(p, 1)

SkipYear ==
    /\ segs < MaxYearSegs
    /\ csv # <<>>
    /\ SkipDays(365)

NextYear == AppendYearDay \/ SkipYear \/ LoadSnapshot \/ QueryAnnualAvg \/ QueryAnnualTotal

SpecYear == InitYear /\ [][NextYear]_vars

-----------------------------------------------------------------------------
(* Claims about the annual summaries *)

\* C6: neither annual query returns a row for the clock's year: every year
\* returned is before it, and the rows are in ascending year order.
C6_NoCurrentYear ==
    /\ pc = "annual_avg_sql" =>
        /\ \A k \in DOMAIN annual_avg_sql : annual_avg_sql[k].Year < now_year
        /\ \A k \in 1..(Len(annual_avg_sql) - 1) :
            annual_avg_sql[k].Year < annual_avg_sql[k + 1].Year
    /\ pc = "annual_total_prcp" =>
        /\ \A k \in DOMAIN annual_total_prcp : annual_total_prcp[k].Year < now_year
        /\ \A k \in 1..(Len(annual_total_prcp) - 1) :
            annual_total_prcp[k].Year < annual_total_prcp[k + 1].Year

\* What the queries do guarantee: no year from 2025 on, ascending order.
AnnualBefore2025 ==
    /\ pc = "annual_avg_sql" =>
        /\ \A k \in DOMAIN annual_avg_sql : annual_avg_sql[k].Year < 2025
        /\ \A k \in 1..(Len(annual_avg_sql) - 1) :
            annual_avg_sql[k].Year < annual_avg_sql[k + 1].Year
    /\ pc = "annual_total_prcp" =>
        /\ \A k \in DOMAIN annual_total_prcp : annual_total_prcp[k].Year < 2025
        /\ \A k \in 1..(Len(annual_total_prcp) - 1) :
            annual_total_prcp[k].Year < annual_total_prcp[k + 1].Year

-----------------------------------------------------------------------------
(* Specification of the ranked lists of days *)

MaxTopSegs == 4

\* (tmax, tmin, prcp): a hot wet day, a mild dry day, a day with no readings
TopReadings ==
    { Readings(Some(85), Some(110), Some(60), Some(50)),
      Readings(Some(75), Some(100), Some(50), Some(0)),
      Readings(NULL, NULL, NULL, NULL) }

TopSpells == {1, 5}

InitTop ==
    /\ InitCommon
    /\ cursor = ParseDate(2024, 6, 20)
    /\ now_year = 2025

AppendTop ==
    /\ segs < MaxTopSegs
    /\ \E p \in TopReadings, n \in TopSpells : AppendDays(p, n)

NextTop == AppendTop \/ LoadSnapshot \/ QueryWarmestDays \/ QueryColdestDays \/ QueryWettestDays

SpecTop == InitTop /\ [][NextTop]_vars

-----------------------------------------------------------------------------
(* Claims about the ranked lists of days *)

TopDone == pc \in {"warmest_days", "coldest_days", "wettest_days"}

\* The list that has just been computed, its metric over the table, and
\* whether a is at least as extreme as b.
TopList == CASE pc = "warmest_days" -> warmest_days
             [] pc = "coldest_days" -> coldest_days
             [] pc = "wettest_days" -> wettest_days
             [] OTHER -> <<>>
Metric(i) == CASE pc = "warmest_days" -> weather[i].TMAX
               [] pc = "coldest_days" -> weather[i].TMIN
               [] OTHER -> weather[i].PRCP
AsExtreme(a, b) == IF pc = "coldest_days" THEN a <= b ELSE a >= b
MoreExtreme(a, b) == IF pc = "coldest_days" THEN a < b ELSE a > b

ListedDates == {TopList[k].Date : k \in DOMAIN TopList}
LeftOut == {i \in DOMAIN weather : weather[i].Date \notin ListedDates /\ Metric(i) # NULL}

\* At most 10 rows, each a record of the table with its metric, none with a
\* null metric, each at least as extreme as every record left out.
TopListSound ==
    /\ Len(TopList) <= 10
    /\ \A k \in DOMAIN TopList :
        /\ TopList[k].value # NULL
        /\ \E i \in DOMAIN weather :
              weather[i].Date = TopList[k].Date /\ Metric(i) = TopList[k].value
        /\ \A i \in LeftOut : AsExtreme(TopList[k].value[1], Metric(i)[1])
    /\ \A k, l \in DOMAIN TopList : k # l => TopList[k].Date # TopList[l].Date
    /\ LeftOut # {} => Len(TopList) = 10

\* C7 as stated: the list is strictly sorted by the metric in the requested
\* direction (each row more extreme than the next).
C7_StrictlySorted ==
    TopDone =>
        /\ TopListSound
        /\ \A k \in 1..(Len(TopList) - 1) :
            MoreExtreme(TopList[k].value[1], TopList[k + 1].value[1])

\* C7 amended: the list is sorted by the metric in the requested direction,
\* rows with equal metric values being adjacent in some order.
C7_SortedWithTies ==
    TopDone =>
        /\ TopListSound
        /\ \A k \in 1..(Len(TopList) - 1) :
            AsExtreme(TopList[k].value[1], TopList[k + 1].value[1])

\* More than 10 candidate days, one day alone at 110 degrees ranked first,
\* and a day without tmax in the table.
C7_Witness ==
    /\ pc = "warmest_days"
    /\ Len(warmest_days) = 10
    /\ LeftOut # {}
    /\ warmest_days[1].value = Some(110)
    /\ warmest_days[2].value = Some(100)
    /\ weather[1].TMAX # Some(110)
    /\ \E i \in DOMAIN weather : weather[i].TMAX = NULL

\* C8: rows with equal metric values keep the chronological order (the
\* earlier date first), and among equal values the earlier dates are the
\* ones kept, so the list is a function of the table.
C8_TiesChronological ==
    pc \in {"warmest_days", "coldest_days"} =>
        /\ \A k \in 1..(Len(TopList) - 1) :
            TopList[k].value = TopList[k + 1].value => TopList[k].Date < TopList[k + 1].Date
        /\ \A k \in DOMAIN TopList : \A i \in LeftOut :
            Metric(i) = TopList[k].value => TopList[k].Date < weather[i].Date

-----------------------------------------------------------------------------
(* Specification of the load: a file whose rows come in any order *)

MaxLoadRows == 3

\* dates on both sides of 1949-01-01, of a decade's end, and a leap day
LoadDates ==
    { ParseDate(1948, 12, 31), ParseDate(1949, 1, 1), ParseDate(1959, 12, 31),
      ParseDate(1960, 1, 1), ParseDate(2024, 2, 29) }

LoadReadings ==
    { Readings(Some(65), Some(75), Some(55), Some(0)),
      Readings(NULL, NULL, NULL, NULL) }

InitLoad ==
    /\ InitCommon
    /\ cursor = ParseDate(1949, 1, 1)
    /\ now_year = 2025

\* The file receives one more row, of any date: nothing orders the file.
WriteRow ==
    /\ pc = "data"
    /\ segs < MaxLoadRows
    /\ \E d \in LoadDates, p \in LoadReadings : csv' = Append(csv, Row(d, p))
    /\ segs' = segs + 1
    /\ UNCHANGED <<cursor, now_year, weather, pc, selected, resultVars>>

NextLoad == WriteRow \/ LoadSnapshot \/ LoadClimate

SpecLoad == InitLoad /\ [][NextLoad]_vars

-----------------------------------------------------------------------------
(* Claims about the load *)

Loaded == pc \in {"snapshot", "climate"}

Chronological(df) == \A i, j \in DOMAIN df : i < j => df[i].Date <= df[j].Date

\* The file rows dated 1949-01-01 or later, and the rank of one among them.
Kept == {i \in DOMAIN csv : csv[i].Date >= ParseDate(1949, 1, 1)}
RankInKept(i) == Cardinality({j \in Kept : j <= i})

SameObservation(w, r) ==
    /\ w.Date = r.Date
    /\ w.TAVG = r.TAVG
    /\ w.TMAX = r.TMAX
    /\ w.TMIN = r.TMIN
    /\ w.PRCP = r.PRCP

\* Exactly the file rows from 1949 on, none lost, none added.
ExactlyKept ==
    /\ Len(weather) = Cardinality(Kept)
    /\ \A i \in Kept : \E k \in DOMAIN weather : SameObservation(weather[k], csv[i])
    /\ \A k \in DOMAIN weather : weather[k].Date >= ParseDate(1949, 1, 1)

\* year = year(date), decade = floor(year / 10) * 10
YearAndDecade ==
    \A k \in DOMAIN weather :
        /\ ParseDate(weather[k].Year, 1, 1) <= weather[k].Date
        /\ weather[k].Date < ParseDate(weather[k].Year + 1, 1, 1)
        /\ weather[k].Decade % 10 = 0
        /\ weather[k].Decade <= weather[k].Year
        /\ weather[k].Year < weather[k].Decade + 10

-----------------------------------------------------------------------------
(* Specification of the ranked lists of months *)

MaxTopMonthSegs == 3

\* (tavg, prcp): a mild dry day, a warmer wet day, a day with no readings
TopMonthReadings ==
    { Readings(Some(65), Some(75), Some(55), Some(0)),
      Readings(Some(66), Some(76), Some(56), Some(50)),
      Readings(NULL, NULL, NULL, NULL) }

\* one day, or all of a month but its last day
TopMonthSpells == {1, 29}

InitTopMonths ==
    /\ InitCommon
    /\ cursor = ParseDate(2024, 6, 1)
    /\ now_year = 2025

AppendTopMonthDays ==
    /\ segs < MaxTopMonthSegs
    /\ \E p \in TopMonthReadings, n \in TopMonthSpells : AppendDays(p, n)

\* One mild dry day in each of the months that follow.
AppendTopMonthSweep ==
    /\ segs < MaxTopMonthSegs
    /\ AppendRows(Readings(Some(65), Some(75), Some(55), Some(0)), SweepRows, SweepEvery)

NextTopMonths ==
    \/ AppendTopMonthDays
    \/ AppendTopMonthSweep
    \/ LoadSnapshot
    \/ QueryWarmestMonths
    \/ QueryColdestMonths
    \/ QueryWettestMonths

SpecTopMonths == InitTopMonths /\ [][NextTopMonths]_vars

-----------------------------------------------------------------------------
(* Claims about the ranked lists of months *)

MonthsDone == pc \in {"warmest_months", "coldest_months", "wettest_months"}

MonthList == CASE pc = "warmest_months" -> warmest_months
               [] pc = "coldest_months" -> coldest_months
               [] pc = "wettest_months" -> wettest_months
               [] OTHER -> <<>>

MonthCol == IF pc = "wettest_months" THEN "PRCP" ELSE "TAVG"
Ascends == pc = "coldest_months"

MonthKey(d) == <<YearOf(d), MonthOf(d)>>

\* For every month of the table: the dates of its records that have the
\* metric, their number and the sum of their values.
MonthStats ==
    LET has == {i \in DOMAIN weather : weather[i][MonthCol] # NULL}
        in(g) == {j \in has : MonthKey(weather[j].Date) = g}
    IN  {[key |-> g,
          dates |-> {weather[j].Date : j \in in(g)},
          n |-> Cardinality(in(g)),
          s |-> SumPairs({<<j, weather[j][MonthCol][1]>> : j \in in(g)})] :
            g \in {MonthKey(weather[i].Date) : i \in DOMAIN weather}}

\* The months of the list, in order.
ListedKeys == {<<k, MonthKey(MonthList[k].SampleDate)>> : k \in DOMAIN MonthList}

StatsOf(st, g) == CHOOSE a \in st : a.key = g
Listed(keys, g) == \E e \in keys : e[2] = g

\* The average of month a is above that of month b, compared exactly.
AverageAbove(a, b) == a.s * b.n > b.s * a.n

\* v is the average of month a rounded to one decimal, in tenths.
IsRoundedAverage(v, a) ==
    /\ -a.n <= 2 * (10 * a.s - v * a.n)
    /\ 2 * (10 * a.s - v * a.n) < a.n

\* v is the value the list ranks month a by.
IsRankedValue(v, a) == IF MonthCol = "PRCP" THEN v = a.s ELSE IsRoundedAverage(v, a)

\* The value month a is ranked by is at most v (at least v).
RankedAtMost(a, v) == IF MonthCol = "PRCP" THEN a.s <= v ELSE 20 * a.s < (2 * v + 1) * a.n
RankedAtLeast(a, v) == IF MonthCol = "PRCP" THEN a.s >= v ELSE 20 * a.s >= (2 * v - 1) * a.n

\* Groups by (year, month), one row per group, each represented by its
\* earliest contributing date, none without a contributing day, at most 10,
\* and no group with a contributing day left out of a list shorter than 10.
MonthGroupsSound(st, keys) ==
    /\ Len(MonthList) <= 10
    /\ \A e \in keys :
        /\ \E a \in st : a.key = e[2]
        /\ StatsOf(st, e[2]).n > 0
        /\ MonthList[e[1]].SampleDate \in StatsOf(st, e[2]).dates
        /\ \A d \in StatsOf(st, e[2]).dates : MonthList[e[1]].SampleDate <= d
    /\ \A e, f \in keys : e[1] # f[1] => e[2] # f[2]
    /\ \A a \in st : (a.n > 0 /\ ~Listed(keys, a.key)) => Len(MonthList) = 10

\* C13 as stated: the list has one row per (year, month) group, represented
\* by its earliest contributing date, no row for a month without a non-null
\* contributing day, at most 10 rows, ordered by the aggregate -- avg(tavg)
\* or sum(precipitation) over the group's non-null values -- in the
\* requested direction.
C13_OrderedByAggregate ==
    MonthsDone =>
        LET st == MonthStats
            keys == ListedKeys
        IN  /\ MonthGroupsSound(st, keys)
            /\ \A e, f \in keys : f[1] = e[1] + 1 =>
                IF Ascends THEN ~AverageAbove(StatsOf(st, e[2]), StatsOf(st, f[2]))
                           ELSE ~AverageAbove(StatsOf(st, f[2]), StatsOf(st, e[2]))

\* C13 amended: as stated, but the temperature aggregate is avg(tavg) rounded
\* to one decimal, the list is ordered by that rounded value (the exact sum
\* for precipitation) with equal values in any order, and no month left out
\* has a value more extreme than a listed one.
C13_OrderedByRoundedAggregate ==
    MonthsDone =>
        LET st == MonthStats
            keys == ListedKeys
        IN  /\ MonthGroupsSound(st, keys)
            /\ \A e \in keys : IsRankedValue(MonthList[e[1]].value, StatsOf(st, e[2]))
            /\ \A k \in DOMAIN MonthList : k < Len(MonthList) =>
                IF Ascends THEN MonthList[k].value <= MonthList[k + 1].value
                           ELSE MonthList[k].value >= MonthList[k + 1].value
            /\ \A a \in st : (a.n > 0 /\ ~Listed(keys, a.key)) =>
                \A k \in DOMAIN MonthList :
                    IF Ascends THEN RankedAtLeast(a, MonthList[k].value)
                               ELSE RankedAtMost(a, MonthList[k].value)

\* A ranked list of ten months has been cut from more than ten, a listed
\* month has several contributing days, and a month of the table has no
\* contributing day at all.
C13_Witness ==
    /\ MonthsDone
    /\ Len(MonthList) = 10
    /\ LET st == MonthStats
           keys == ListedKeys
       IN  /\ \E a \in st : a.n > 0 /\ ~Listed(keys, a.key)
           /\ \E a \in st : a.n > 1 /\ Listed(keys, a.key)
           /\ \E a \in st : a.n = 0

-----------------------------------------------------------------------------
(* Specification of the floating holidays *)

MaxHolidaySegs == 1
MaxClockYear == 2040

\* a day with all readings, a day with neither tmax nor precipitation
HolidayReadings ==
    { Readings(Some(65), Some(75), Some(55), Some(20)),
      Readings(Some(65), NULL, Some(55), NULL) }

HolidayClockYears == 2024..MaxClockYear

InitHoliday ==
    /\ InitCommon
    /\ cursor = ParseDate(2024, 7, 4)
    /\ now_year \in HolidayClockYears

AppendHolidayDay ==
    /\ segs < MaxHolidaySegs
    /\ \E p \in HolidayReadings : AppendDays(p, 1)

NextHoliday == AppendHolidayDay \/ LoadHoliday \/ AppendHolidayDates \/ ReturnHolidayDates

SpecHoliday == InitHoliday /\ [][NextHoliday]_vars

-----------------------------------------------------------------------------
(* Claims about the floating holidays *)

HolidaysDone == pc = "variable_holidays"

\* The day of the week of a calendar date, Sunday 0 to Saturday 6, from the
\* year, the month and the day alone.
MonthShift == <<0, 3, 2, 5, 0, 3, 5, 1, 4, 6, 2, 4>>
Weekday(c) ==
    LET y == IF c.m < 3 THEN c.Y - 1 ELSE c.Y
    IN  (y + (y \div 4) - (y \div 100) + (y \div 400) + MonthShift[c.m] + c.d) % 7

IsMonday(c) == Weekday(c) = 1
IsThursday(c) == Weekday(c) = 4

\* C15: for every year from 1949 through the current year the function
\* yields exactly one date per floating holiday: Memorial Day a Monday dated
\* May 25..31, Labor Day a Monday dated Sep 1..7, Thanksgiving a Thursday
\* dated Nov 22..28; the three lists have equal length and are in ascending
\* year order.
C15_FloatingHolidays ==
    HolidaysDone =>
        /\ Len(holiday_dates.Memorial) = now_year - 1949 + 1
        /\ Len(holiday_dates.Labor) = now_year - 1949 + 1
        /\ Len(holiday_dates.Thanksgiving) = now_year - 1949 + 1
        /\ \A k \in 1..(now_year - 1949 + 1) :
            /\ holiday_dates.Memorial[k].Y = 1949 + k - 1
            /\ holiday_dates.Memorial[k].m = 5
            /\ holiday_dates.Memorial[k].d \in 25..31
            /\ IsMonday(holiday_dates.Memorial[k])
            /\ holiday_dates.Labor[k].Y = 1949 + k - 1
            /\ holiday_dates.Labor[k].m = 9
            /\ holiday_dates.Labor[k].d \in 1..7
            /\ IsMonday(holiday_dates.Labor[k])
            /\ holiday_dates.Thanksgiving[k].Y = 1949 + k - 1
            /\ holiday_dates.Thanksgiving[k].m = 11
            /\ holiday_dates.Thanksgiving[k].d \in 22..28
            /\ IsThursday(holiday_dates.Thanksgiving[k])

\* The function has returned with the clock in 2026: the lists start with
\* 1949 (May 30, Sep 5, Nov 24) and end with 2026 (May 25, Sep 7, Nov 26).
C15_Witness ==
    /\ HolidaysDone
    /\ now_year = 2026
    /\ holiday_dates.Memorial[1] = [Y |-> 1949, m |-> 5, d |-> 30]
    /\ holiday_dates.Labor[1] = [Y |-> 1949, m |-> 9, d |-> 5]
    /\ holiday_dates.Thanksgiving[1] = [Y |-> 1949, m |-> 11, d |-> 24]
    /\ holiday_dates.Memorial[78] = [Y |-> 2026, m |-> 5, d |-> 25]
    /\ holiday_dates.Labor[78] = [Y |-> 2026, m |-> 9, d |-> 7]
    /\ holiday_dates.Thanksgiving[78] = [Y |-> 2026, m |-> 11, d |-> 26]

-----------------------------------------------------------------------------
(* Specification of concurrent page runs *)

MaxPageSegs == 1

\* a day with all readings, a day with neither tmax nor precipitation
PageReadings ==
    { Readings(Some(65), Some(75), Some(55), Some(20)),
      Readings(Some(65), NULL, Some(55), NULL) }

InitPages ==
    /\ InitCommon
    /\ cursor = ParseDate(2024, 7, 4)
    /\ now_year = 2025

AppendPageDay ==
    /\ segs < MaxPageSegs
    /\ \E p \in PageReadings : AppendDays(p, 1)

\* streamlit run: the server starts on the file as it is, which has rows.
Serve ==
    /\ pc = "data"
    /\ csv # <<>>
    /\ pc' = "serving"
    /\ UNCHANGED <<fileVars, now_year, weather, selected, resultVars>>

NextPages ==
    \/ AppendPageDay
    \/ Serve
    \/ \E s \in Sessions, page \in Pages : StartRun(s, page)
    \/ \E s \in Sessions : DropView(s)
    \/ \E s \in Sessions : Register(s)
    \/ \E s \in Sessions : RegisterAgain(s)
    \/ \E s \in Sessions : QueryWeather(s)

SpecPages == InitPages /\ [][NextPages]_vars

-----------------------------------------------------------------------------
(* Claims about concurrent page runs *)

\* C11: under every interleaving of two page runs, every query of a run
\* reads exactly the table that run registered (so no query fails for want
\* of a table, and a Snapshot or Climate History query never reads the
\* Holiday page's table with its filled-in TMAX and PRCP).
C11_RunsReadOwnTable ==
    \A s \in Sessions :
        /\ page_runs[s].at # "failed"
        /\ page_runs[s].at = "queried" => page_runs[s].read = page_runs[s].df

\* The particular case: a Snapshot or Climate History query has read a table
\* in which a blank TMAX was replaced by TAVG.
ReadsFilledTable(s) ==
    /\ page_runs[s].page \in {"Snapshot", "Climate"}
    /\ page_runs[s].at = "queried"
    /\ \E i \in DOMAIN page_runs[s].read :
        /\ i \in DOMAIN csv
        /\ csv[i].TMAX = NULL
        /\ page_runs[s].read[i].TMAX # NULL

NeverReadsFilledTable == \A s \in Sessions : ~ReadsFilledTable(s)

\* What holds without the other session: while one session alone runs
\* pages, each of its queries reads the table its run registered.
AloneReadsOwnTable ==
    \A s, t \in Sessions :
        (s # t /\ page_runs[t] = NoRun /\ page_runs[s].at = "queried") =>
            page_runs[s].read = page_runs[s].df

=============================================================================
